---- MODULE Spec2Model ----
(***************************************************************************)
(* Model of package maildotapp (mail.go): the .emlx framing strip          *)
(* (stripEmlx), the message file lookup (Message.Open), the directory walk *)
(* that builds url2path (gatherMboxPaths, filePathToURL) and the paginated *)
(* query callable (Mailboxes.Query, emlPathFromROWID).                     *)
(*                                                                         *)
(* Go strings and byte slices are sequences of one-character strings; the  *)
(* bytes space, line feed and carriage return are written "SP", "LF" and   *)
(* "CR".                                                                   *)
(***************************************************************************)
EXTENDS Integers, Sequences, FiniteSets, TLC

VARIABLES
    \* stripEmlx
    stream,        \* the bytes of the io.ReadSeeker handed to stripEmlx
    chunk,         \* how many bytes one Read of that stream returns at most
    pos,           \* read position of the stream when stripEmlx returns
    sres,          \* what stripEmlx returned, NoResult before the call
    \* gatherMboxPaths
    dirs,          \* directories under the walk's root (paths as segment lists)
    plists,        \* directories that hold a file Info.plist
    phase,         \* "build": tree being laid out, "walk", "done"
    stack,         \* directories WalkDir has still to visit, next first
    mboxPaths,     \* mboxPaths of gatherMboxPaths: marked directories
    paths,         \* paths of gatherMboxPaths: logical key -> directory
    recorded,      \* history: <<visited directory, marked directory>> pairs
    \* Mailboxes.Query and Message.Open
    db,            \* rows of the index, newest first: [id, url, mbx]
    url2path,      \* Mailboxes.url2path
    mq,            \* the MailboxQuery the callable is closed over
    batchCount,    \* batchCount of the closure
    calls,         \* history: the requests the callable has issued
    qres,          \* what the last invocation of the callable did
    cursor,        \* "none", "open" or "closed": the rows of the last call
    ores           \* what the last Message.Open did

vars == <<stream, chunk, pos, sres, dirs, plists, phase, stack, mboxPaths,
          paths, recorded, db, url2path, mq, batchCount, calls, qres, cursor,
          ores>>

stripVars == <<stream, chunk, pos, sres>>
walkVars == <<dirs, plists, phase, stack, mboxPaths, paths, recorded>>
mailVars == <<db, url2path, mq, batchCount, calls, qres, cursor, ores>>

(***************************************************************************)
(* Bounds of the model                                                     *)
(***************************************************************************)
MaxLen == 6        \* longest stream handed to stripEmlx
MaxChunk == 2      \* largest number of bytes one Read returns

NoResult == [kind |-> "none"]

(***************************************************************************)
(* Helpers on sequences                                                    *)
(***************************************************************************)
RECURSIVE SeqsUpTo(_, _)
SeqsUpTo(S, n) ==
    IF n = 0 THEN {<<>>}
    ELSE LET shorter == SeqsUpTo(S, n - 1)
         IN  shorter \cup {Append(s, x) : s \in {t \in shorter : Len(t) = n - 1}, x \in S}

Min(a, b) == IF a < b THEN a ELSE b

Max(a, b) == IF a > b THEN a ELSE b

(***************************************************************************)
(* stripEmlx                                                               *)
(***************************************************************************)
Byte == {"0", "2", "SP", "LF", "CR", "x"}

Digit == {"0", "1", "2", "3", "4", "5", "6", "7", "8", "9"}

DigitVal(c) ==
    CASE c = "0" -> 0 [] c = "1" -> 1 [] c = "2" -> 2 [] c = "3" -> 3
      [] c = "4" -> 4 [] c = "5" -> 5 [] c = "6" -> 6 [] c = "7" -> 7
      [] c = "8" -> 8 [] c = "9" -> 9

\* bufio.MaxScanTokenSize: a Scanner gives up on a line that does not fit
MaxScanTokenSize == 65536

\* index of the first line feed of data, 0 when it has none
FirstLF(data) ==
    IF \E i \in 1..Len(data) : data[i] = "LF"
    THEN CHOOSE i \in 1..Len(data) :
            data[i] = "LF" /\ \A j \in 1..(i - 1) : data[j] # "LF"
    ELSE 0

\* bufio.dropCR
dropCR(data) ==
    IF Len(data) > 0 /\ data[Len(data)] = "CR"
    THEN SubSeq(data, 1, Len(data) - 1)
    ELSE data

\* bufio.Scanner.Scan with the split function bufio.ScanLines, on a reader
\* positioned at 0 whose Read returns at most c bytes: whether a token was
\* found, the token, and how many bytes the Scanner consumed from the reader
ScanFirstLine(data, c) ==
    LET lf == FirstLF(data)
        n == Len(data)
    IN  IF lf > 0 /\ lf <= MaxScanTokenSize
        THEN [ok |-> TRUE,
              token |-> dropCR(SubSeq(data, 1, lf - 1)),
              read |-> Min(n, c * ((lf + c - 1) \div c))]
        ELSE IF n >= MaxScanTokenSize
        THEN [ok |-> FALSE, token |-> <<>>, read |-> MaxScanTokenSize]
        ELSE IF n > 0
        THEN [ok |-> TRUE, token |-> dropCR(data), read |-> n]
        ELSE [ok |-> FALSE, token |-> <<>>, read |-> 0]

\* bytes.Trim(b, " ")
RECURSIVE TrimLeft(_)
TrimLeft(b) ==
    IF Len(b) > 0 /\ b[1] = "SP" THEN TrimLeft(Tail(b)) ELSE b

RECURSIVE TrimRight(_)
TrimRight(b) ==
    IF Len(b) > 0 /\ b[Len(b)] = "SP"
    THEN TrimRight(SubSeq(b, 1, Len(b) - 1))
    ELSE b

Trim(b) == TrimRight(TrimLeft(b))

\* strconv.Atoi: an optional sign, then one or more decimal digits
RECURSIVE DecimalValue(_)
DecimalValue(s) ==
    IF Len(s) = 0 THEN 0
    ELSE 10 * DecimalValue(SubSeq(s, 1, Len(s) - 1)) + DigitVal(s[Len(s)])

Atoi(s) ==
    LET signed == Len(s) > 0 /\ s[1] \in {"+", "-"}
        digits == IF signed THEN Tail(s) ELSE s
    IN  IF Len(digits) = 0 \/ \E i \in 1..Len(digits) : digits[i] \notin Digit
        THEN [ok |-> FALSE, n |-> 0]
        ELSE [ok |-> TRUE,
              n |-> IF signed /\ s[1] = "-" THEN 0 - DecimalValue(digits)
                    ELSE DecimalValue(digits)]

\* the offset stripEmlx seeks to, without the line feed (a slip)
SeekOffsetNoTerminator(original) == Len(original)

\* the offset stripEmlx seeks to: len(original)+1
SeekOffset(original) == Len(original) + 1

\* stripEmlx(r), r at position 0: the reader and error it returns and where r
\* stands. kind "limit" is io.LimitReader(r, n), kind "raw" is r itself.
stripEmlx(data, c) ==
    LET sc == ScanFirstLine(data, c)
        original == sc.token
        byteNum == Atoi(Trim(original))
    IN  IF sc.ok
        THEN IF ~byteNum.ok
             THEN [kind |-> "raw", err |-> "atoi", n |-> 0, at |-> sc.read]
             ELSE [kind |-> "limit", err |-> "nil", n |-> byteNum.n,
                   at |-> SeekOffset(original)]
        ELSE [kind |-> "raw", err |-> "noline", n |-> 0, at |-> sc.read]

\* io.ReadAll of the reader stripEmlx returned
ReadAll(data, res) ==
    LET last == IF res.kind = "limit"
                THEN Min(Len(data), res.at + Max(res.n, 0))
                ELSE Len(data)
    IN  SubSeq(data, res.at + 1, last)

StripInit ==
    /\ stream \in SeqsUpTo(Byte, MaxLen)
    /\ chunk \in 1..MaxChunk
    /\ pos = 0
    /\ sres = NoResult

Strip ==
    /\ sres = NoResult
    /\ sres' = stripEmlx(stream, chunk)
    /\ pos' = sres'.at
    /\ UNCHANGED <<stream, chunk>>

(***************************************************************************)
(* gatherMboxPaths and filePathToURL                                       *)
(***************************************************************************)
MaxDirs == 3       \* most directories laid out under the root
MaxDepth == 3      \* deepest directory under the root

\* strings.HasPrefix
HasPrefix(s, prefix) ==
    Len(prefix) <= Len(s) /\ SubSeq(s, 1, Len(prefix)) = prefix

\* strings.Replace(s, old, "", -1), old not empty
RECURSIVE RemoveAll(_, _)
RemoveAll(s, old) ==
    IF Len(s) < Len(old) THEN s
    ELSE IF SubSeq(s, 1, Len(old)) = old
    THEN RemoveAll(SubSeq(s, Len(old) + 1, Len(s)), old)
    ELSE <<s[1]>> \o RemoveAll(Tail(s), old)

Sep == <<"/">>

DotMbox == <<".", "m", "b", "o", "x">>

DataName == <<"D", "a", "t", "a">>

MailDataName == <<"M", "a", "i", "l", "D", "a", "t", "a">>

\* the directory names of the model, in the byte order os.ReadDir sorts by
NameOrder ==
    << DataName, MailDataName, <<"a">>, <<"a">> \o DotMbox, <<"b">> \o DotMbox >>

DirName == {NameOrder[i] : i \in DOMAIN NameOrder}

Rank(name) == CHOOSE i \in DOMAIN NameOrder : NameOrder[i] = name

\* the argument of walker: "<home>/Library/Mail/V10/", here "/r/"
rootPath == <<"/", "r", "/">>

\* filepath.Join(path, name) as WalkDir forms the path of every entry: a
\* directory is a list of names below the root, <<>> the root itself, whose
\* path WalkDir passes on as it was given
RECURSIVE PathOf(_)
PathOf(segs) ==
    IF segs = <<>> THEN rootPath
    ELSE IF Len(segs) = 1 THEN <<"/", "r">> \o Sep \o segs[1]
    ELSE PathOf(SubSeq(segs, 1, Len(segs) - 1)) \o Sep \o segs[Len(segs)]

\* d.Name()
NameOf(segs) == IF segs = <<>> THEN <<"r">> ELSE segs[Len(segs)]

\* filePathToURL keeping the ".mbox" of the path (a slip)
filePathToURLKeepMbox(root, path) == RemoveAll(path, root)

\* filePathToURL
filePathToURL(root, path) == RemoveAll(RemoveAll(path, root), DotMbox)

\* the test of gatherMboxPaths for "path is a direct child of p"
IsDirectChild(path, name, p) ==
    HasPrefix(path, p) /\ RemoveAll(path, Sep \o name) = p

\* the value gatherMboxPaths records for a visited directory
DataDir(path) == path \o Sep \o DataName

\* the subdirectories of a directory in the order WalkDir visits them
Children(segs) ==
    {d \in dirs : Len(d) = Len(segs) + 1 /\ SubSeq(d, 1, Len(segs)) = segs}

RECURSIVE SortedDirs(_)
SortedDirs(S) ==
    IF S = {} THEN <<>>
    ELSE LET first == CHOOSE d \in S :
                        \A e \in S : Rank(NameOf(d)) <= Rank(NameOf(e))
         IN  <<first>> \o SortedDirs(S \ {first})

WalkInit ==
    /\ dirs = {}
    /\ plists = {}
    /\ phase = "build"
    /\ stack = <<>>
    /\ mboxPaths = {}
    /\ paths = <<>>
    /\ recorded = {}

\* the mail client creates a directory below the root
MkDir ==
    /\ phase = "build"
    /\ Cardinality(dirs) < MaxDirs
    /\ \E parent \in dirs \cup {<<>>}, name \in DirName :
          /\ Len(parent) < MaxDepth
          /\ Append(parent, name) \notin dirs
          /\ dirs' = dirs \cup {Append(parent, name)}
    /\ UNCHANGED <<plists, phase, stack, mboxPaths, paths, recorded>>

\* the mail client writes an Info.plist into a directory
WritePlist ==
    /\ phase = "build"
    /\ \E d \in (dirs \cup {<<>>}) \ plists : plists' = plists \cup {d}
    /\ UNCHANGED <<dirs, phase, stack, mboxPaths, paths, recorded>>

\* gatherMboxPaths is called: WalkDir starts at the root
StartWalk ==
    /\ phase = "build"
    /\ phase' = "walk"
    /\ stack' = <<(<<>>)>>
    /\ UNCHANGED <<dirs, plists, mboxPaths, paths, recorded>>

\* one call of the WalkDirFunc, for the directory on top of the stack, and
\* WalkDir's descent into it (readable: the directory's entries follow;
\* otherwise WalkDir reports the read error to the function, which returns it)
Visit(readable) ==
    /\ phase = "walk"
    /\ stack # <<>>
    /\ LET cur == Head(stack)
           path == PathOf(cur)
           name == NameOf(cur)
           skip == name = DataName \/ name = MailDataName
           hits == IF skip THEN {}
                   ELSE {p \in mboxPaths : IsDirectChild(path, name, p)}
           keys == {filePathToURL(rootPath, p) : p \in hits}
           rest == IF skip THEN Tail(stack)
                   ELSE SortedDirs(Children(cur)) \o Tail(stack)
       IN  /\ paths' = [k \in DOMAIN paths \cup keys |->
                           IF k \in keys THEN DataDir(path) ELSE paths[k]]
           /\ recorded' = recorded \cup {<<path, p>> : p \in hits}
           /\ mboxPaths' = IF ~skip /\ cur \in plists
                           THEN mboxPaths \cup {path} ELSE mboxPaths
           /\ IF readable \/ skip
              THEN /\ stack' = rest
                   /\ phase' = IF rest = <<>> THEN "done" ELSE "walk"
              ELSE /\ stack' = <<>>
                   /\ phase' = "failed"
    /\ UNCHANGED <<dirs, plists>>

VisitDir == Visit(TRUE)

VisitUnreadable == Visit(FALSE)

(***************************************************************************)
(* Mailboxes.Query, emlPathFromROWID and Message.Open                      *)
(***************************************************************************)
MaxRows == 2       \* most rows in the index
MaxBatch == 2      \* largest BatchResults
MaxCalls == 2      \* most invocations of one query callable

Nil == <<"nil">>

\* the value database/sql reports for a NULL column
NullUrl == <<"NULL">>

Scheme == <<"i", "m", "a", "p", ":", "/", "/">>

\* Mailbox.URL
URL(m) == Scheme \o m.account \o Sep \o m.name

\* Mailbox.IsEmpty
IsEmpty(m) == m.account = Nil \/ m.name = <<>>

NoMailbox == [account |-> Nil, name |-> <<>>]

InboxOne == [account |-> <<"1">>, name |-> <<"I">>]

SentTwo == [account |-> <<"2">>, name |-> <<"S">>]

\* index of the first occurrence of c in s, 0 when there is none
IndexOf(s, c) ==
    IF \E i \in 1..Len(s) : s[i] = c
    THEN CHOOSE i \in 1..Len(s) : s[i] = c /\ \A j \in 1..(i - 1) : s[j] # c
    ELSE 0

\* url.Parse for URLs of the shape scheme://host/path: the Host and Path of
\* the result; a URL without a scheme before its colon is an error
ParseURL(u) ==
    LET colon == IndexOf(u, ":")
        rest == SubSeq(u, colon + 1, Len(u))
        after == IF HasPrefix(rest, <<"/", "/">>) THEN SubSeq(rest, 3, Len(rest))
                 ELSE <<>>
        slash == IndexOf(after, "/")
    IN  IF colon = 1 THEN [ok |-> FALSE, Host |-> <<>>, Path |-> <<>>]
        ELSE [ok |-> TRUE,
              Host |-> IF slash = 0 THEN after ELSE SubSeq(after, 1, slash - 1),
              Path |-> IF slash = 0 THEN <<>> ELSE SubSeq(after, slash, Len(after))]

MessagesSeg == <<"M", "e", "s", "s", "a", "g", "e", "s">>

\* emlPathFromROWID with the characters in reading order (a slip)
emlPathInOrder(ROWID) ==
    <<ROWID[1]>> \o Sep \o <<ROWID[2]>> \o Sep \o <<ROWID[3]>> \o Sep
        \o MessagesSeg \o Sep \o ROWID

\* emlPathFromROWID, for a ROWID of three bytes or more; ROWID[2] panics on a
\* shorter one (see ScanRows)
emlPathFromROWID(ROWID) ==
    <<ROWID[3]>> \o Sep \o <<ROWID[2]>> \o Sep \o <<ROWID[1]>> \o Sep
        \o MessagesSeg \o Sep \o ROWID

\* path.Join of two clean, non-empty paths
Join(a, b) == a \o Sep \o b

\* the rows the index returns for the query text and variables of one call:
\* WHERE mbx.url = ?, ORDER BY m.date_received DESC, LIMIT ? OFFSET ?
Select(table, m, limit, offset) ==
    LET idx == {i \in 1..Len(table) : IsEmpty(m) \/ table[i].url = URL(m)}
        RECURSIVE Pick(_)
        Pick(S) == IF S = {} THEN <<>>
                   ELSE LET i == CHOOSE j \in S : \A k \in S : j <= k
                        IN  <<table[i]>> \o Pick(S \ {i})
        all == Pick(idx)
    IN  IF limit > 0 THEN SubSeq(all, offset + 1, Min(Len(all), offset + limit))
        ELSE all

\* the loop "for rows.Next()" of the callable over the rows from the i-th on
RECURSIVE ScanRows(_, _, _, _)
ScanRows(rows, i, msgs, map) ==
    IF i > Len(rows) THEN [kind |-> "ok", msgs |-> msgs, why |-> "nil"]
    ELSE LET ROWID == rows[i].id
             u == rows[i].url
             MailboxURL == ParseURL(u)
             relativePath == MailboxURL.Host \o MailboxURL.Path
         IN  IF u = NullUrl
             THEN [kind |-> "err", msgs |-> <<>>, why |-> "scan"]
             ELSE IF ~MailboxURL.ok
             THEN [kind |-> "panic", msgs |-> <<>>, why |-> "nil dereference"]
             ELSE IF relativePath \notin DOMAIN map
             THEN [kind |-> "err", msgs |-> <<>>, why |-> "unmatched mailbox path"]
             ELSE IF Len(ROWID) < 3
             THEN [kind |-> "panic", msgs |-> <<>>, why |-> "index out of range"]
             ELSE ScanRows(rows, i + 1,
                    Append(msgs, [pathWithoutExtension |->
                                    Join(map[relativePath], emlPathFromROWID(ROWID))]),
                    map)

\* the state of the rows of a call once the callable is left: defer rows.Close()
RowsAfterCall == "closed"

\* os.Open of ".partial.emlx" after any failure of ".emlx" (a slip)
TriesPartialAlways(err1) == err1 # "nil"

\* Message.Open: whether ".partial.emlx" is tried after os.Open(".emlx") gave err1
TriesPartial(err1) == err1 = "notexist"

\* Message.Open when os.Open gives err1 for ".emlx" and err2 for
\* ".partial.emlx": the files it tried, the reader and error it returned and
\* the files it opened and did not close
Open(m, err1, err2, content, c) ==
    LET out(tried, reader, err, open) ==
            [msg |-> m, err1 |-> err1, err2 |-> err2, tried |-> tried,
             reader |-> reader, err |-> err, open |-> open]
    IN  IF err1 = "nil"
        THEN out(<<"emlx">>, stripEmlx(content, c), stripEmlx(content, c).err,
                 {"emlx"})
        ELSE IF ~TriesPartial(err1)
        THEN out(<<"emlx">>, NoResult, err1, {})
        ELSE IF err2 = "nil"
        THEN out(<<"emlx", "partial.emlx">>, stripEmlx(content, c),
                 stripEmlx(content, c).err, {"partial.emlx"})
        ELSE out(<<"emlx", "partial.emlx">>, NoResult, err2, {})

RowId == { <<"5">>, <<"1", "2">>, <<"1", "2", "3">>,
           <<"0", "4", "4", "7", "6", "3", "0">> }

RowUrl == {URL(InboxOne), URL(SentTwo), NullUrl}

Row == [id : RowId, url : RowUrl]

\* what gatherMboxPaths gives for an account 1 whose INBOX.mbox is on disk
PathMap ==
    (<<"1", "/", "I">>) :> <<"/", "r", "/", "1", "/", "I">> \o DotMbox
                            \o <<"/", "u", "/">> \o DataName

OpenErr == {"nil", "notexist", "permission"}

\* message files: framed with a trailer, framed without a number, empty
FileContent ==
    { <<"2", "LF", "x", "x", "x">>, <<"x", "LF", "x">>, <<>> }

MailInit ==
    /\ db \in SeqsUpTo(Row, MaxRows)
    /\ url2path = PathMap
    /\ mq \in [Mailbox : {NoMailbox, InboxOne, SentTwo}, BatchResults : 0..MaxBatch]
    /\ batchCount = 0
    /\ calls = <<>>
    /\ qres = NoResult
    /\ cursor = "none"
    /\ ores = NoResult

\* one invocation of the callable Mailboxes.Query returned; dbErr: m.db.Query
\* fails
Call(dbErr) ==
    /\ Len(calls) < MaxCalls
    /\ LET limit == IF mq.BatchResults > 0 THEN mq.BatchResults ELSE 0
           offset == IF mq.BatchResults > 0 THEN batchCount * mq.BatchResults ELSE 0
           rows == Select(db, mq.Mailbox, limit, offset)
       IN  /\ calls' = Append(calls, [limit |-> limit, offset |-> offset])
           /\ IF dbErr
              THEN /\ qres' = [kind |-> "err", msgs |-> <<>>, why |-> "query",
                               rows |-> <<>>]
                   /\ cursor' = "none"
              ELSE /\ qres' = [kind |-> ScanRows(rows, 1, <<>>, url2path).kind,
                               msgs |-> ScanRows(rows, 1, <<>>, url2path).msgs,
                               why |-> ScanRows(rows, 1, <<>>, url2path).why,
                               rows |-> rows]
                   /\ cursor' = RowsAfterCall
    /\ UNCHANGED <<db, url2path, mq, batchCount, ores>>

Query == Call(FALSE)

QueryFails == Call(TRUE)

\* Message.Open on a message of the last result
OpenMessage ==
    /\ qres # NoResult
    /\ qres.kind = "ok"
    /\ \E i \in 1..Len(qres.msgs), err1 \in OpenErr, err2 \in OpenErr,
          content \in FileContent, c \in 1..MaxChunk :
          ores' = Open(qres.msgs[i], err1, err2, content, c)
    /\ UNCHANGED <<db, url2path, mq, batchCount, calls, qres, cursor>>

(***************************************************************************)
(* Specifications                                                          *)
(***************************************************************************)
StripIdle ==
    /\ stream = <<>>
    /\ chunk = 1
    /\ pos = 0
    /\ sres = NoResult

WalkIdle ==
    /\ dirs = {}
    /\ plists = {}
    /\ phase = "idle"
    /\ stack = <<>>
    /\ mboxPaths = {}
    /\ paths = <<>>
    /\ recorded = {}

MailIdle ==
    /\ db = <<>>
    /\ url2path = PathMap
    /\ mq = [Mailbox |-> NoMailbox, BatchResults |-> 0]
    /\ batchCount = 0
    /\ calls = <<>>
    /\ qres = NoResult
    /\ cursor = "none"
    /\ ores = NoResult

\* the query callable and Message.Open
Init == MailInit /\ StripIdle /\ WalkIdle

Next ==
    \/ Query /\ UNCHANGED <<stripVars, walkVars>>
    \/ QueryFails /\ UNCHANGED <<stripVars, walkVars>>
    \/ OpenMessage /\ UNCHANGED <<stripVars, walkVars>>

Spec == Init /\ [][Next]_vars

\* stripEmlx on every stream up to MaxLen bytes
InitStrip == StripInit /\ WalkIdle /\ MailIdle

NextStrip == Strip /\ UNCHANGED <<walkVars, mailVars>>

SpecStrip == InitStrip /\ [][NextStrip]_vars

\* gatherMboxPaths on every directory tree up to MaxDirs directories
InitWalk == WalkInit /\ StripIdle /\ MailIdle

NextWalk ==
    \/ MkDir /\ UNCHANGED <<stripVars, mailVars>>
    \/ WritePlist /\ UNCHANGED <<stripVars, mailVars>>
    \/ StartWalk /\ UNCHANGED <<stripVars, mailVars>>
    \/ VisitDir /\ UNCHANGED <<stripVars, mailVars>>
    \/ VisitUnreadable /\ UNCHANGED <<stripVars, mailVars>>

SpecWalk == InitWalk /\ [][NextWalk]_vars

(***************************************************************************)
(* Properties of the query callable (Spec)                                 *)
(***************************************************************************)
Called == qres # NoResult

\* the rows of the last call were iterated (m.db.Query did not fail)
Iterated == Called /\ qres.why # "query"

\* C1: with BatchResults = b > 0 the k-th invocation (k = 0, 1, ...) asks for
\* b rows from offset b*k on
C1_OffsetAdvances ==
    mq.BatchResults > 0 =>
        \A k \in 1..Len(calls) :
            /\ calls[k].limit = mq.BatchResults
            /\ calls[k].offset = mq.BatchResults * (k - 1)

\* host + path of a stored URL as the claims read it: the text after "imap://"
HostAndPath(u) == SubSeq(u, Len(Scheme) + 1, Len(u))

\* C4: a call whose rows hold a URL without an entry in url2path returns an
\* error and no message
C4_UnresolvedFailsCall ==
    (Iterated /\ \E i \in 1..Len(qres.rows) :
                    /\ qres.rows[i].url # NullUrl
                    /\ HostAndPath(qres.rows[i].url) \notin DOMAIN url2path)
        => qres.kind = "err" /\ qres.msgs = <<>>

\* the part of a message's path below the mailbox directory .../I.mbox/u/Data
BelowData(m) ==
    SubSeq(m.pathWithoutExtension, Len(PathMap[<<"1", "/", "I">>]) + 2,
           Len(m.pathWithoutExtension))

LongRowId == <<"0", "4", "4", "7", "6", "3", "0">>

Opened == ores # NoResult

\* C7: Open tries ".emlx" first and ".partial.emlx" only after ".emlx" did
\* not exist; another failure of ".emlx" is returned at once
C7_PartialOnlyAfterNotExist ==
    Opened =>
        /\ ores.tried[1] = "emlx"
        /\ Len(ores.tried) = 2 <=> ores.err1 = "notexist"
        /\ Len(ores.tried) = 2 => ores.tried[2] = "partial.emlx"
        /\ ores.err1 \notin {"nil", "notexist"} =>
              ores.err = ores.err1 /\ ores.reader = NoResult
        /\ ores.err1 = "nil" => ores.reader # NoResult /\ ores.open = {"emlx"}

C7_Witness ==
    /\ Opened
    /\ ores.err1 = "permission"
    /\ ores.err2 = "nil"
    /\ ores.tried = <<"emlx">>

StripFailedInOpen == Opened /\ ores.reader # NoResult /\ ores.reader.err # "nil"

\* C9: the rows of a call are closed on every return, and a message file is
\* closed before Open returns when stripEmlx failed on it
C9_ClosedOnEveryExit ==
    /\ cursor # "open"
    /\ StripFailedInOpen => ores.open = {}

\* C10: an invocation of the callable ends by returning messages or an error
C10_CallReturns == Called => qres.kind \in {"ok", "err"}

(***************************************************************************)
(* Properties of stripEmlx (SpecStrip)                                     *)
(***************************************************************************)
Stripped == sres # NoResult

RECURSIVE Pow10(_)
Pow10(n) == IF n = 0 THEN 1 ELSE 10 * Pow10(n - 1)

RECURSIVE Decimal(_, _, _)
Decimal(s, i, j) ==
    IF i > j THEN 0 ELSE DigitVal(s[i]) * Pow10(j - i) + Decimal(s, i + 1, j)

\* s is framed at i, j, k: spaces, digits i..j, spaces, a line feed at k, and at least as
\* many bytes after it as the digits say
FramedAt(s, i, j, k) ==
    /\ 1 <= i /\ i <= j /\ j < k /\ k <= Len(s)
    /\ s[k] = "LF"
    /\ \A x \in 1..(i - 1) : s[x] = "SP"
    /\ \A x \in i..j : s[x] \in Digit
    /\ \A x \in (j + 1)..(k - 1) : s[x] = "SP"
    /\ Len(s) - k >= Decimal(s, i, j)

\* C2: on a framed stream stripEmlx returns a reader of exactly the N bytes
\* after the line feed
C2_StripYieldsDeclaredBytes ==
    Stripped =>
        \A i \in 1..Len(stream), j \in 1..Len(stream), k \in 1..Len(stream) :
            FramedAt(stream, i, j, k) =>
                /\ sres.err = "nil"
                /\ ReadAll(stream, sres) =
                      [x \in 1..Decimal(stream, i, j) |-> stream[k + x]]

\* a padded first line, a payload and a trailer
C2_Witness ==
    /\ Stripped
    /\ \E i \in 1..Len(stream), j \in 1..Len(stream), k \in 1..Len(stream) :
          /\ FramedAt(stream, i, j, k)
          /\ k > j - i + 2
          /\ Decimal(stream, i, j) > 0
          /\ Len(stream) > k + Decimal(stream, i, j)

\* C3: when the first line is no integer stripEmlx returns an error and the
\* stream itself, and reading that reader gives all the bytes of the stream
C3_FallbackReaderIsWholeStream ==
    (Stripped /\ sres.err = "atoi") =>
        /\ sres.kind = "raw"
        /\ ReadAll(stream, sres) = stream

(***************************************************************************)
(* Properties of gatherMboxPaths (SpecWalk)                                *)
(***************************************************************************)
Parent(d) == SubSeq(d, 1, Len(d) - 1)

SkipName(d) == NameOf(d) \in {DataName, MailDataName}

\* WalkDir reaches d: no directory on the way to d is Data or MailData
Reached(d) == \A n \in 1..(Len(d) - 1) : ~SkipName(SubSeq(d, 1, n))

EndsWithMbox(name) ==
    /\ Len(name) > Len(DotMbox)
    /\ SubSeq(name, Len(name) - Len(DotMbox) + 1, Len(name)) = DotMbox

\* old occurs in s
RECURSIVE Occurs(_, _)
Occurs(old, s) ==
    /\ Len(s) >= Len(old)
    /\ \/ SubSeq(s, 1, Len(old)) = old
       \/ Occurs(old, Tail(s))

\* the logical key of a marked directory: its names with ".mbox" removed,
\* joined by "/"
RECURSIVE KeyOf(_)
KeyOf(d) ==
    LET last == d[Len(d)]
        bare == IF EndsWithMbox(last)
                THEN SubSeq(last, 1, Len(last) - Len(DotMbox)) ELSE last
    IN  IF Len(d) = 1 THEN bare ELSE KeyOf(Parent(d)) \o <<"/">> \o bare

\* a tree with a marker file in X and the data folder X/Y.mbox
MarkedWithMboxChild(X, Y) ==
    /\ X \in dirs
    /\ X \in plists
    /\ Y \in dirs
    /\ Parent(Y) = X
    /\ EndsWithMbox(NameOf(Y))

\* the tree is X, the directories on the way to X, and X/Y.mbox; WalkDir
\* reaches X, and "/Y.mbox" does not occur in root/X
OnlyMarkedWithMboxChild(X, Y) ==
    /\ MarkedWithMboxChild(X, Y)
    /\ dirs = {SubSeq(X, 1, n) : n \in 1..Len(X)} \cup {Y}
    /\ Reached(X) /\ ~SkipName(X)
    /\ ~Occurs(<<"/">> \o NameOf(Y), PathOf(X))

DirectChildPath(c, p) ==
    /\ Len(c) > Len(p) + 1
    /\ SubSeq(c, 1, Len(p) + 1) = p \o <<"/">>
    /\ \A x \in (Len(p) + 2)..Len(c) : c[x] # "/"

\* C8: an entry for a marked directory p is recorded on visiting c exactly
\* when c is a direct child of p
C8_RecordedIffDirectChild ==
    /\ \A r \in recorded : DirectChildPath(r[1], r[2])
    /\ phase = "done" =>
          \A c \in dirs :
              (/\ Len(c) >= 2
               /\ Reached(c) /\ ~SkipName(c)
               /\ Parent(c) \in plists /\ ~SkipName(Parent(c)))
                  => <<PathOf(c), PathOf(Parent(c))>> \in recorded

====
